---- MODULE Spec2Model ----
(***************************************************************************)
(* bundle.py: selection of paths by ordered include/exclude pattern        *)
(* options, then emission of one record per selected path.                 *)
(*                                                                         *)
(* A Python str is a tuple of one-character strings, a relative Path is a  *)
(* tuple of segments (each a str).                                         *)
(***************************************************************************)
EXTENDS Integers, Sequences, FiniteSets, TLC

\* ------------------------------------------------------------------ bounds
\* number of options on the command line
MaxOpts == 2

\* ----------------------------------------------------------- str primitives
LowerLetters == <<"a","b","c","d","e","f","g","h","i","j","k","l","m",
                  "n","o","p","q","r","s","t","u","v","w","x","y","z">>
UpperLetters == <<"A","B","C","D","E","F","G","H","I","J","K","L","M",
                  "N","O","P","Q","R","S","T","U","V","W","X","Y","Z">>
Digits == <<"0","1","2","3","4","5","6","7","8","9">>

IndexIn(c, seq) == CHOOSE j \in 1..Len(seq) : seq[j] = c
InSeq(c, seq) == \E j \in 1..Len(seq) : seq[j] = c

\* code point of a character (ASCII)
Ord(c) ==
  IF InSeq(c, LowerLetters) THEN 96 + IndexIn(c, LowerLetters)
  ELSE IF InSeq(c, UpperLetters) THEN 64 + IndexIn(c, UpperLetters)
  ELSE IF InSeq(c, Digits) THEN 47 + IndexIn(c, Digits)
  ELSE CASE c = " " -> 32 [] c = "*" -> 42 [] c = "," -> 44 [] c = "-" -> 45
         [] c = "." -> 46 [] c = "/" -> 47 [] c = ":" -> 58 [] c = "?" -> 63
         [] c = "_" -> 95

\* str.lower()
LowerChar(c) == IF InSeq(c, UpperLetters) THEN LowerLetters[IndexIn(c, UpperLetters)] ELSE c
Lower(s) == [j \in 1..Len(s) |-> LowerChar(s[j])]

StartsWith(s, prefix) ==
  Len(prefix) <= Len(s) /\ SubSeq(s, 1, Len(prefix)) = prefix

EndsWith(s, c) == Len(s) > 0 /\ s[Len(s)] = c

\* str.replace(old, new), leftmost non-overlapping occurrences
RECURSIVE Replace(_, _, _)
Replace(s, old, new) ==
  IF Len(s) < Len(old) THEN s
  ELSE IF StartsWith(s, old)
       THEN new \o Replace(SubSeq(s, Len(old) + 1, Len(s)), old, new)
       ELSE <<Head(s)>> \o Replace(Tail(s), old, new)

\* str.rstrip(c)
RECURSIVE RStrip(_, _)
RStrip(s, c) == IF EndsWith(s, c) THEN RStrip(SubSeq(s, 1, Len(s) - 1), c) ELSE s

RECURSIVE LStrip(_, _)
LStrip(s, c) == IF Len(s) > 0 /\ Head(s) = c THEN LStrip(Tail(s), c) ELSE s

\* str.strip(): the only whitespace of the alphabet is the blank
Strip(s) == LStrip(RStrip(s, " "), " ")

\* str.split(sep)
RECURSIVE Split(_, _)
Split(s, sep) ==
  IF ~InSeq(sep, s) THEN <<s>>
  ELSE LET j == CHOOSE x \in 1..Len(s) : s[x] = sep /\ \A y \in 1..(x - 1) : s[y] # sep
       IN  <<SubSeq(s, 1, j - 1)>> \o Split(SubSeq(s, j + 1, Len(s)), sep)

\* str.split(sep, 1)
SplitOnce(s, sep) ==
  LET j == CHOOSE x \in 1..Len(s) : s[x] = sep /\ \A y \in 1..(x - 1) : s[y] # sep
  IN  <<SubSeq(s, 1, j - 1), SubSeq(s, j + 1, Len(s))>>

\* str < str: by code points, a proper prefix is smaller
RECURSIVE StrLess(_, _)
StrLess(s, t) ==
  IF t = <<>> THEN FALSE
  ELSE IF s = <<>> THEN TRUE
  ELSE IF Head(s) = Head(t) THEN StrLess(Tail(s), Tail(t))
  ELSE Ord(Head(s)) < Ord(Head(t))

\* fnmatch.fnmatch(name, pat) for patterns over literals, '*' and '?'
RECURSIVE FnMatch(_, _)
FnMatch(name, pat) ==
  IF pat = <<>> THEN name = <<>>
  ELSE IF Head(pat) = "*"
       THEN FnMatch(name, Tail(pat)) \/ (name # <<>> /\ FnMatch(Tail(name), pat))
  ELSE IF Head(pat) = "?"
       THEN name # <<>> /\ FnMatch(Tail(name), Tail(pat))
  ELSE name # <<>> /\ Head(name) = Head(pat) /\ FnMatch(Tail(name), Tail(pat))

\* ------------------------------------------------------------------- Paths
\* str(path): the segments joined by '/'
RECURSIVE PathStr(_)
PathStr(path) ==
  IF path = <<>> THEN <<".">>
  ELSE IF Len(path) = 1 THEN path[1]
  ELSE path[1] \o <<"/">> \o PathStr(Tail(path))

\* path.name
PathName(path) == path[Len(path)]

\* Path < Path: the lists of segments compared element by element
RECURSIVE PathLess(_, _)
PathLess(p, q) ==
  IF q = <<>> THEN FALSE
  ELSE IF p = <<>> THEN TRUE
  ELSE IF Head(p) = Head(q) THEN PathLess(Tail(p), Tail(q))
  ELSE StrLess(Head(p), Head(q))

\* a sort that compares the paths as plain strings
RECURSIVE SortedByStr(_)
SortedByStr(S) ==
  IF S = {} THEN <<>>
  ELSE LET m == CHOOSE x \in S : \A y \in S \ {x} : StrLess(PathStr(x), PathStr(y))
       IN  <<m>> \o SortedByStr(S \ {m})

\* sorted(current_set)
RECURSIVE Sorted(_)
Sorted(S) ==
  IF S = {} THEN <<>>
  ELSE LET m == CHOOSE x \in S : \A y \in S \ {x} : PathLess(x, y)
       IN  <<m>> \o Sorted(S \ {m})

\* ------------------------------------------------------------- file system
n_a_cpp       == <<"a", ".", "c", "p", "p">>
n_b_cpp       == <<"b", ".", "c", "p", "p">>
n_build       == <<"b", "u", "i", "l", "d">>
n_ignored_cpp == <<"i", "g", "n", "o", "r", "e", "d", ".", "c", "p", "p">>
n_build_cpp   == <<"b", "u", "i", "l", "d", ".", "c", "p", "p">>
n_tools       == <<"t", "o", "o", "l", "s">>
n_x_txt       == <<"x", ".", "t", "x", "t">>
n_app_bin     == <<"a", "p", "p", ".", "b", "i", "n">>
n_secret_key  == <<"s", "e", "c", "r", "e", "t", ".", "k", "e", "y">>
n_huge_csv    == <<"h", "u", "g", "e", ".", "c", "s", "v">>
n_tmp_log     == <<"t", "m", "p", ".", "l", "o", "g">>

\* encoding names
utf_8     == <<"u", "t", "f", "_", "8">>
utf8      == <<"u", "t", "f", "8">>
u8        == <<"u", "8">>
utf_8_sig == <<"u", "t", "f", "_", "8", "_", "s", "i", "g">>
cp1251    == <<"c", "p", "1", "2", "5", "1">>
cp866     == <<"c", "p", "8", "6", "6">>
ascii     == <<"a", "s", "c", "i", "i">>
None      == <<>>

\* The tree under root.  dir: is a directory; io: "ok", "denied" (open
\* fails) or "eio" (open and the read of the first block succeed, the read
\* of the whole file fails); nul: offset of the first zero byte, 0 when
\* there is none; detected: what charset detection answers (None: no
\* guess); decodes: the codecs that decode the bytes without error.
Tree == {
  [path |-> <<n_a_cpp>>, dir |-> FALSE, io |-> "ok", nul |-> 0,
   detected |-> utf_8, decodes |-> {"utf_8", "utf_8_sig", "cp1251", "cp866"}],
  [path |-> <<n_b_cpp>>, dir |-> FALSE, io |-> "ok", nul |-> 0,
   detected |-> cp1251, decodes |-> {"cp1251", "cp866"}],
  [path |-> <<n_build>>, dir |-> TRUE, io |-> "ok", nul |-> 0,
   detected |-> None, decodes |-> {}],
  [path |-> <<n_build, n_ignored_cpp>>, dir |-> FALSE, io |-> "ok", nul |-> 0,
   detected |-> ascii, decodes |-> {"ascii", "utf_8", "utf_8_sig", "cp1251", "cp866"}],
  [path |-> <<n_build_cpp>>, dir |-> TRUE, io |-> "ok", nul |-> 0,
   detected |-> None, decodes |-> {}],
  [path |-> <<n_tools>>, dir |-> TRUE, io |-> "ok", nul |-> 0,
   detected |-> None, decodes |-> {}],
  [path |-> <<n_tools, n_x_txt>>, dir |-> FALSE, io |-> "ok", nul |-> 0,
   detected |-> cp1251, decodes |-> {"cp1251", "cp866"}],
  [path |-> <<n_tools, n_app_bin>>, dir |-> FALSE, io |-> "ok", nul |-> 5,
   detected |-> None, decodes |-> {}],
  [path |-> <<n_secret_key>>, dir |-> FALSE, io |-> "denied", nul |-> 0,
   detected |-> utf_8, decodes |-> {"utf_8", "cp1251", "cp866"}],
  [path |-> <<n_huge_csv>>, dir |-> FALSE, io |-> "eio", nul |-> 0,
   detected |-> utf_8, decodes |-> {"utf_8", "cp1251", "cp866"}],
  [path |-> <<n_tmp_log>>, dir |-> FALSE, io |-> "ok", nul |-> 0,
   detected |-> None, decodes |-> {"cp1251", "cp866"}] }

Node(path) == CHOOSE e \in Tree : e.path = path

\* (root / rel_path).is_dir()
IsDir(path) == \E e \in Tree : e.path = path /\ e.dir

\* open(path, 'rb') and f.read(sample_size) succeed
SampleReadable(path) == Node(path).io # "denied"

\* open(path, 'rb') and f.read() of the whole file succeed
FullyReadable(path) == Node(path).io = "ok"

\* os.walk below one directory: the directory itself (unless it is the
\* root), its files, and the walk of each subdirectory
RECURSIVE Walk(_)
Walk(dirpath) ==
  LET children == {e \in Tree : Len(e.path) = Len(dirpath) + 1
                                /\ SubSeq(e.path, 1, Len(dirpath)) = dirpath}
  IN  (IF dirpath = <<>> THEN {} ELSE {dirpath})
      \cup {e.path : e \in {c \in children : ~c.dir}}
      \cup UNION {Walk(e.path) : e \in {c \in children : c.dir}}

collect_all_paths == Walk(<<>>)

\* -------------------------------------------------------- pattern matching
\* match_pattern without the role test of directory patterns
match_pattern_no_role(path, pattern, is_dir) ==
  IF EndsWith(pattern, "/")
  THEN LET dir_pattern == RStrip(pattern, "/")
       IN  IF dir_pattern = <<>> THEN TRUE
           ELSE PathStr(path) = dir_pattern
                \/ StartsWith(PathStr(path), dir_pattern \o <<"/">>)
  ELSE IF is_dir THEN FALSE
       ELSE FnMatch(PathName(path), pattern)

match_pattern(path, pattern, is_dir) ==
  IF EndsWith(pattern, "/")
  THEN IF ~is_dir THEN FALSE
       ELSE LET dir_pattern == RStrip(pattern, "/")
            IN  IF dir_pattern = <<>> THEN TRUE
                ELSE PathStr(path) = dir_pattern
                     \/ StartsWith(PathStr(path), dir_pattern \o <<"/">>)
  ELSE IF is_dir THEN FALSE
       ELSE FnMatch(PathName(path), pattern)

\* [p.strip() for p in patterns_str.split(",") if p.strip()]
SplitPatterns(patterns_str) ==
  LET parts == Split(patterns_str, ",")
      stripped == [j \in 1..Len(parts) |-> Strip(parts[j])]
  IN  SelectSeq(stripped, LAMBDA p : p # <<>>)

MatchesAny(path, patterns) ==
  \E j \in 1..Len(patterns) : match_pattern(path, patterns[j], IsDir(path))

\* an exclude that filters the whole tree instead of the current set
apply_patterns_over_tree(current_set, patterns_str, action) ==
  IF patterns_str = <<>> THEN current_set
  ELSE LET patterns == SplitPatterns(patterns_str)
           all_paths == collect_all_paths
       IN  IF action = "exclude"
           THEN {p \in all_paths : ~MatchesAny(p, patterns)}
           ELSE current_set \cup {p \in all_paths : MatchesAny(p, patterns)}

apply_patterns_to_set(current_set, patterns_str, action) ==
  IF patterns_str = <<>> THEN current_set
  ELSE LET patterns == SplitPatterns(patterns_str)
           all_paths == IF action = "include" THEN collect_all_paths ELSE {}
           source == IF action = "exclude" THEN current_set ELSE all_paths
           new_set == {p \in source :
                         IF action = "include" THEN MatchesAny(p, patterns)
                         ELSE action = "exclude" /\ ~MatchesAny(p, patterns)}
       IN  IF action = "exclude" THEN new_set ELSE current_set \cup new_set

\* ------------------------------------------------------------ command line
\* option values the caller may give
v_cpp_build == <<"*", ".", "c", "p", "p", ",", "b", "u", "i", "l", "d", "/">>
v_build     == <<"b", "u", "i", "l", "d", "/">>
v_all       == <<"*", ",", " ", "/">>
v_txt       == <<"*", ".", "t", "x", "t">>
v_empty     == <<>>
v_b_cpp     == <<"b", ".", "c", "p", "p">>
v_tools     == <<"t", "o", "o", "l", "s", "/">>
e_tools     == <<"t", "o", "o", "l", "s", "/", ":", "c", "p", "8", "6", "6">>
e_cpp       == <<"*", ".", "c", "p", "p", ":", "U", "T", "F", "8">>
v_log       == <<"*", ".", "l", "o", "g">>
v_key       == <<"*", ".", "k", "e", "y">>

SelectionValues  == {v_cpp_build, v_build, v_all, v_txt, v_key, v_empty}
EncodingValues   == {e_tools, e_cpp, v_log}
NoBackupValues   == {v_b_cpp, v_tools}
PathsOnlyValues  == {v_txt, v_build}

Options ==
  [kind : {"p", "ignore"}, val : SelectionValues]
  \cup [kind : {"encoding"}, val : EncodingValues]
  \cup [kind : {"no_binary_backup"}, val : NoBackupValues]
  \cup [kind : {"paths_only"}, val : PathsOnlyValues]

CommandLines == UNION {[1..n -> Options] : n \in 0..MaxOpts}

VARIABLES
  argv,          \* the options in the order the caller gave them
  output_mode,   \* "stdout", "write" (-o) or "append" (-a)
  pc,            \* "select", "emit" or "done"
  idx,           \* position in all_args of the next operation
  current_set,   \* the working set
  prev_set,      \* the working set before the last operation applied
  sorted_paths,  \* sorted(current_set)
  k,             \* position in sorted_paths of the next path
  sink,          \* what the destination holds
  opened,        \* open(output_path, mode) was called
  stderr,        \* the diagnostic lines
  status         \* exit status; -1 while running

vars == <<argv, output_mode, pc, idx, current_set, prev_set, sorted_paths, k,
          sink, opened, stderr, status>>

\* argparse action="append": the values of one option, in order
ArgValues(kind) ==
  LET sel == SelectSeq(argv, LAMBDA o : o.kind = kind)
  IN  [j \in 1..Len(sel) |-> sel[j].val]

\* all_args: every -p first, then every --ignore
all_args ==
  LET inc == ArgValues("p")
      exc == ArgValues("ignore")
  IN  [j \in 1..Len(inc) |-> [action |-> "include", patterns_str |-> inc[j]]]
      \o [j \in 1..Len(exc) |-> [action |-> "exclude", patterns_str |-> exc[j]]]

\* one item of parse_key_value_option; flag: the value is True, not a str
RECURSIVE ParseParts(_)
ParseParts(parts) ==
  IF parts = <<>> THEN <<>>
  ELSE LET part == Strip(Head(parts))
       IN  IF part = <<>> THEN ParseParts(Tail(parts))
           ELSE IF InSeq(":", part)
                THEN <<[pat |-> Strip(SplitOnce(part, ":")[1]),
                        val |-> Strip(SplitOnce(part, ":")[2]),
                        flag |-> FALSE]>> \o ParseParts(Tail(parts))
                ELSE <<[pat |-> part, val |-> <<>>, flag |-> TRUE]>>
                     \o ParseParts(Tail(parts))

parse_key_value_option(opt_str) ==
  IF opt_str = <<>> THEN <<>> ELSE ParseParts(Split(opt_str, ","))

RECURSIVE ParseAll(_)
ParseAll(values) ==
  IF values = <<>> THEN <<>>
  ELSE parse_key_value_option(Head(values)) \o ParseAll(Tail(values))

encoding_rules   == ParseAll(ArgValues("encoding"))
no_backup_rules  == ParseAll(ArgValues("no_binary_backup"))
paths_only_rules == ParseAll(ArgValues("paths_only"))

\* ------------------------------------------------------------------- codec
SampleSize == 1024

binary     == <<"b", "i", "n", "a", "r", "y">>
utf_dash_8 == <<"u", "t", "f", "-", "8">>

normalize_encoding_name(enc) ==
  IF enc = <<>> THEN <<"u", "n", "k", "n", "o", "w", "n">>
  ELSE Replace(Replace(Lower(enc), <<"_">>, <<"-">>), utf8, utf_dash_8)

UTF8Family ==
  { utf_dash_8,
    <<"u", "t", "f", "-", "8", "-", "s", "i", "g">>,
    <<"u", "t", "f", "-", "8", "-", "b", "o", "m">>,
    utf8,
    <<"u", "t", "f", "8", "-", "s", "i", "g">> }

\* the codec bytes.decode(encoding) looks up: the name lower-cased with
\* '-' and ' ' as '_', then the alias table; "LookupError" when unknown
CodecOf(encoding) ==
  LET n == Replace(Replace(Lower(encoding), <<"-">>, <<"_">>), <<" ">>, <<"_">>)
  IN  CASE n \in {utf_8, utf8, u8} -> "utf_8"
        [] n = utf_8_sig -> "utf_8_sig"
        [] n = cp1251 -> "cp1251"
        [] n = cp866 -> "cp866"
        [] n = ascii -> "ascii"
        [] OTHER -> "LookupError"

is_binary_file(path) ==
  IF ~SampleReadable(path) THEN TRUE
  ELSE Node(path).nul >= 1 /\ Node(path).nul <= SampleSize

NoRule == [pat |-> <<>>, val |-> <<>>, flag |-> FALSE]

\* truth value of a rule's value: True, or a non-empty str
Truthy(e) == e.flag \/ e.val # <<>>

Result(text, encoding, needs_base64, is_binary, error, raised) ==
  [text |-> text, encoding |-> encoding, needs_base64 |-> needs_base64,
   is_binary |-> is_binary, error |-> error, raised |-> raised]

\* raised: the exception that leaves the function, "none" when it returns
read_file_with_encoding(path, explicit) ==
  IF is_binary_file(path)
  THEN Result(FALSE, binary, TRUE, TRUE, "none", "none")
  ELSE IF ~FullyReadable(path)
  THEN Result(FALSE, None, FALSE, FALSE, "read", "none")
  ELSE IF explicit.flag
  THEN Result(FALSE, None, FALSE, FALSE, "none", "TypeError")
  ELSE LET chosen == IF Truthy(explicit) THEN explicit.val ELSE Node(path).detected
           encoding == IF chosen = <<>> THEN utf_dash_8 ELSE chosen
           normalized_enc == normalize_encoding_name(encoding)
           is_utf8_family == normalized_enc \in UTF8Family
       IN  IF CodecOf(encoding) \in Node(path).decodes
           THEN Result(TRUE, encoding, ~is_utf8_family, FALSE, "none", "none")
           ELSE Result(FALSE, encoding, TRUE, TRUE, "decode", "none")

\* -------------------------------------------------------------------- main
Rec(kind, path, enc, codec, err, b64, partial) ==
  [kind |-> kind, path |-> path, enc |-> enc, codec |-> codec, err |-> err,
   b64 |-> b64, partial |-> partial]

Plain(kind, path) == Rec(kind, path, <<>>, <<>>, "none", FALSE, FALSE)

Diag(tag, path) == [tag |-> tag, path |-> path]

\* what an output file holds before the run
OldContent == <<Plain("old", <<>>)>>

Init ==
  /\ argv \in CommandLines
  /\ output_mode \in {"stdout", "write", "append"}
  /\ pc = "select"
  /\ idx = 1
  /\ current_set = {}
  /\ prev_set = {}
  /\ sorted_paths = <<>>
  /\ k = 1
  /\ sink = IF output_mode = "stdout" THEN <<>> ELSE OldContent
  /\ opened = FALSE
  /\ stderr = <<>>
  /\ status = -1

\* current_set = apply_patterns_to_set(current_set, root, pattern_str, action)
ApplyOperation ==
  /\ pc = "select"
  /\ idx <= Len(all_args)
  /\ prev_set' = current_set
  /\ current_set' = apply_patterns_to_set(current_set, all_args[idx].patterns_str,
                                          all_args[idx].action)
  /\ idx' = idx + 1
  /\ UNCHANGED <<argv, output_mode, pc, sorted_paths, k, sink, opened, stderr, status>>

\* a test of the working set that never reports it empty
NoMatchNever(set) == FALSE

\* if not current_set
NoMatch(set) == set = {}

ReportNoMatch ==
  /\ pc = "select"
  /\ idx > Len(all_args)
  /\ NoMatch(current_set)
  /\ stderr' = Append(stderr, Diag("NOMATCH", <<>>))
  /\ status' = 1
  /\ pc' = "done"
  /\ UNCHANGED <<argv, output_mode, idx, current_set, prev_set, sorted_paths, k,
                 sink, opened>>

has_no_backup == \E j \in 1..Len(no_backup_rules) : no_backup_rules[j].flag

\* sort the set, open the destination, write the header
OpenOutput ==
  /\ pc = "select"
  /\ idx > Len(all_args)
  /\ ~NoMatch(current_set)
  /\ sorted_paths' = Sorted(current_set)
  /\ opened' = (output_mode # "stdout")
  /\ sink' = IF output_mode = "stdout" THEN sink
             ELSE (IF output_mode = "write" THEN <<>> ELSE sink)
                  \o <<Plain("header", <<>>)>>
                  \o (IF has_no_backup THEN <<Plain("no_backup_marker", <<>>)>> ELSE <<>>)
  /\ k' = 1
  /\ pc' = "emit"
  /\ UNCHANGED <<argv, output_mode, idx, current_set, prev_set, stderr, status>>

FirstMatch(rules, path, is_dir) ==
  CHOOSE j \in 1..Len(rules) :
    /\ match_pattern(path, rules[j].pat, is_dir)
    /\ \A h \in 1..(j - 1) : ~match_pattern(path, rules[h].pat, is_dir)

AnyMatch(rules, path, is_dir) ==
  \E j \in 1..Len(rules) : match_pattern(path, rules[j].pat, is_dir)

is_paths_only(path) == AnyMatch(paths_only_rules, path, IsDir(path))

explicit_encoding(path) ==
  IF AnyMatch(encoding_rules, path, FALSE)
  THEN encoding_rules[FirstMatch(encoding_rules, path, FALSE)]
  ELSE NoRule

disable_base64(path) == AnyMatch(no_backup_rules, path, FALSE)

\* a backup decision that ignores the no-backup rules
WritesBackupAlways(needs_base64, disabled) == needs_base64

\* if needs_base64 and not disable_base64
WritesBackup(needs_base64, disabled) == needs_base64 /\ ~disabled

InLoop == pc = "emit" /\ k <= Len(sorted_paths)

Advance ==
  /\ k' = k + 1
  /\ UNCHANGED <<argv, output_mode, pc, idx, current_set, prev_set, sorted_paths,
                 opened, status>>

EmitDirectory ==
  /\ InLoop
  /\ IsDir(sorted_paths[k])
  /\ sink' = Append(sink, Plain("directory", sorted_paths[k]))
  /\ UNCHANGED stderr
  /\ Advance

EmitPathsOnly ==
  /\ InLoop
  /\ ~IsDir(sorted_paths[k])
  /\ is_paths_only(sorted_paths[k])
  /\ sink' = Append(sink, Plain("path_only", sorted_paths[k]))
  /\ UNCHANGED stderr
  /\ Advance

ReadsFile == InLoop /\ ~IsDir(sorted_paths[k]) /\ ~is_paths_only(sorted_paths[k])

EmitError ==
  /\ ReadsFile
  /\ LET rel == sorted_paths[k]
         r == read_file_with_encoding(rel, explicit_encoding(rel))
     IN  /\ r.raised = "none"
         /\ r.error # "none"
         /\ sink' = Append(sink, Rec("error", rel, <<>>, r.encoding, r.error,
                                     FALSE, FALSE))
         /\ stderr' = Append(stderr, Diag("ERR", rel))
  /\ Advance

EmitBinary ==
  /\ ReadsFile
  /\ LET rel == sorted_paths[k]
         r == read_file_with_encoding(rel, explicit_encoding(rel))
     IN  /\ r.raised = "none"
         /\ r.error = "none"
         /\ r.is_binary
         /\ FullyReadable(rel)
         /\ sink' = Append(sink, Rec("binary", rel, normalize_encoding_name(r.encoding),
                                     <<>>, "none", TRUE, FALSE))
         /\ stderr' = Append(stderr, Diag("BIN", rel))
  /\ Advance

EmitText ==
  /\ ReadsFile
  /\ LET rel == sorted_paths[k]
         r == read_file_with_encoding(rel, explicit_encoding(rel))
         backup == WritesBackup(r.needs_base64, disable_base64(rel))
     IN  /\ r.raised = "none"
         /\ r.error = "none"
         /\ ~r.is_binary
         /\ sink' = Append(sink, Rec("text", rel, normalize_encoding_name(r.encoding),
                                     r.encoding, "none", backup, FALSE))
         /\ stderr' = Append(stderr,
               Diag(IF backup THEN "CONV"
                    ELSE IF r.needs_base64 THEN "CONV_SKIPPED" ELSE "UTF8", rel))
  /\ Advance

\* the read of the bytes for the base64 block of a binary record fails, after
\* the head of the record was written
BlockReadFails(path, r) ==
  r.raised = "none" /\ r.error = "none" /\ r.is_binary /\ ~FullyReadable(path)

\* an exception no handler catches: the finally clause closes the file and
\* the interpreter exits with status 1
RaiseException ==
  /\ ReadsFile
  /\ LET rel == sorted_paths[k]
         r == read_file_with_encoding(rel, explicit_encoding(rel))
         cut == BlockReadFails(rel, r)
     IN  /\ IF r.raised # "none" THEN TRUE ELSE cut
         /\ sink' = IF cut
                    THEN Append(sink, Rec("binary", rel,
                                          normalize_encoding_name(r.encoding),
                                          <<>>, "none", FALSE, TRUE))
                    ELSE sink
         /\ stderr' = Append(stderr, Diag("TRACEBACK", rel))
  /\ status' = 1
  /\ pc' = "done"
  /\ UNCHANGED <<argv, output_mode, idx, current_set, prev_set, sorted_paths, k, opened>>

\* the statistics, then return 0
Finish ==
  /\ pc = "emit"
  /\ k > Len(sorted_paths)
  /\ stderr' = Append(stderr, Diag("STATS", <<>>))
  /\ status' = 0
  /\ pc' = "done"
  /\ UNCHANGED <<argv, output_mode, idx, current_set, prev_set, sorted_paths, k,
                 sink, opened>>

Next ==
  \/ ApplyOperation
  \/ ReportNoMatch
  \/ OpenOutput
  \/ EmitDirectory
  \/ EmitPathsOnly
  \/ EmitError
  \/ EmitBinary
  \/ EmitText
  \/ RaiseException
  \/ Finish

Spec == Init /\ [][Next]_vars

\* ------------------------------------------------------------- properties
SelectionDone == pc # "select" \/ idx > Len(all_args)

\* the operation applied last, while the selection is running
LastOp == all_args[idx - 1]
AfterOperation == pc = "select" /\ idx > 1

IsDirPattern(pat) == EndsWith(pat, "/")

\* path is the directory D or lies beneath it
Beneath(path, D) ==
  D = <<>> \/ PathStr(path) = D \/ StartsWith(PathStr(path), D \o <<"/">>)

\* the records of paths in the document
RecordKinds == {"directory", "path_only", "error", "binary", "text"}
Records == SelectSeq(sink, LAMBDA e : e.kind \in RecordKinds)

InitialSink == IF output_mode = "stdout" THEN <<>> ELSE OldContent

\* the include and exclude options in the order the caller gave them
CallerOps ==
  LET sel == SelectSeq(argv, LAMBDA o : o.kind \in {"p", "ignore"})
  IN  [j \in 1..Len(sel) |->
         [action |-> IF sel[j].kind = "p" THEN "include" ELSE "exclude",
          patterns_str |-> sel[j].val]]

RECURSIVE FoldOps(_, _)
FoldOps(set, ops) ==
  IF ops = <<>> THEN set
  ELSE FoldOps(apply_patterns_to_set(set, Head(ops).patterns_str, Head(ops).action),
               Tail(ops))

\* C1: once every operation is applied, the working set is the fold of the
\* include and exclude options in the caller's left-to-right order, starting
\* from the empty set.
C1_CallerOrderFold ==
  SelectionDone => current_set = FoldOps({}, CallerOps)

\* C2: after an exclude with a directory pattern D/ the working set holds
\* neither D nor any path beneath it, files included; include "*.cpp,build/"
\* then exclude "build/" leaves exactly a.cpp and b.cpp.
C2_DirExcludeRemovesSubtree ==
  (AfterOperation /\ LastOp.action = "exclude") =>
    LET pats == SplitPatterns(LastOp.patterns_str)
    IN  /\ \A j \in 1..Len(pats) :
             IsDirPattern(pats[j]) =>
               \A p \in current_set : ~Beneath(p, RStrip(pats[j], "/"))
        /\ (all_args = <<[action |-> "include", patterns_str |-> v_cpp_build],
                         [action |-> "exclude", patterns_str |-> v_build]>>
            /\ idx = 3) => current_set = {<<n_a_cpp>>, <<n_b_cpp>>}

\* C3: a directory pattern matches no file and a file pattern no directory,
\* and every path an include adds or an exclude removes is matched by a
\* pattern of its own role.
C3_RolesDisjoint ==
  AfterOperation =>
    LET pats == SplitPatterns(LastOp.patterns_str)
        changed == (current_set \ prev_set) \cup (prev_set \ current_set)
    IN  /\ \A p \in collect_all_paths : \A j \in 1..Len(pats) :
             match_pattern(p, pats[j], IsDir(p)) => (IsDirPattern(pats[j]) <=> IsDir(p))
        /\ \A p \in changed : \E j \in 1..Len(pats) :
             /\ IsDirPattern(pats[j]) <=> IsDir(p)
             /\ match_pattern(p, pats[j], IsDir(p))

C3_Witness ==
  /\ AfterOperation
  /\ LastOp = [action |-> "include", patterns_str |-> v_cpp_build]
  /\ <<n_build>> \in current_set
  /\ <<n_a_cpp>> \in current_set
  /\ <<n_build_cpp>> \notin current_set

\* C4: a record rendered as decoded text carries an original-bytes block
\* exactly when its canonical encoding name is outside the UTF-8 family and
\* no no-backup rule matches the file.
C4_BackupIff ==
  \A j \in 1..Len(sink) :
    sink[j].kind = "text" =>
      (sink[j].b64 <=>
         /\ Replace(Replace(Lower(sink[j].codec), <<"_">>, <<"-">>), utf8, utf_dash_8)
              \notin UTF8Family
         /\ ~\E h \in 1..Len(no_backup_rules) :
               match_pattern(sink[j].path, no_backup_rules[h].pat, IsDir(sink[j].path)))

C4_Witness ==
  /\ \E j \in 1..Len(sink) : sink[j].kind = "text" /\ sink[j].b64
  /\ \E j \in 1..Len(sink) : sink[j].kind = "text" /\ ~sink[j].b64
                             /\ sink[j].enc \notin UTF8Family
  /\ \E j \in 1..Len(sink) : sink[j].kind = "text" /\ sink[j].enc \in UTF8Family

\* C5: a file whose bytes the resolved encoding cannot decode gets a record
\* demoted to binary that carries the base64 block of its raw bytes.
C5_DecodeFailureKeepsBytes ==
  \A j \in 1..Len(sink) :
    sink[j].err = "decode" => (sink[j].kind = "binary" /\ sink[j].b64)

\* C6: the run never stops at a selected file whose bytes cannot be read;
\* once the loop is past such a file, the document holds an error record for
\* it and the diagnostics an ERR line.
C6_ReadFailureContinues ==
  \A j \in 1..Len(sorted_paths) :
    LET p == sorted_paths[j]
    IN  (~IsDir(p) /\ ~is_paths_only(p) /\ ~FullyReadable(p)) =>
          /\ ~(pc = "done" /\ k = j)
          /\ k > j =>
               /\ \E h \in 1..Len(sink) : sink[h].kind = "error" /\ sink[h].path = p
               /\ \E h \in 1..Len(stderr) : stderr[h] = Diag("ERR", p)

\* C7: when the working set is empty after the last operation, the
\* destination is never opened, holds what it held before, no record is
\* written, and the run ends with status 1.
C7_NoMatchWritesNothing ==
  (SelectionDone /\ current_set = {}) =>
    /\ ~opened
    /\ sink = InitialSink
    /\ pc # "emit"
    /\ pc = "done" => status = 1

C7_Witness ==
  /\ pc = "done"
  /\ current_set = {}
  /\ prev_set # {}
  /\ output_mode = "write"
  /\ status = 1

\* C8: a run that completes wrote exactly one record per path of the working
\* set, in strictly increasing order of the paths compared segment by segment.
C8_OneRecordPerPathSorted ==
  (pc = "done" /\ status = 0) =>
    /\ Len(Records) = Cardinality(current_set)
    /\ {Records[j].path : j \in 1..Len(Records)} = current_set
    /\ \A j \in 1..(Len(Records) - 1) : PathLess(Records[j].path, Records[j + 1].path)

C8_Witness ==
  /\ pc = "done"
  /\ status = 0
  /\ <<n_build_cpp>> \in current_set
  /\ <<n_build, n_ignored_cpp>> \in current_set
  /\ Len(all_args) = 2

\* C9: when the first encoding rule has a directory pattern D/, every file
\* beneath D that is decoded is decoded with the rule's codec.
C9_DirEncodingRuleApplies ==
  (Len(encoding_rules) >= 1 /\ IsDirPattern(encoding_rules[1].pat)) =>
    \A j \in 1..Len(sink) :
      (sink[j].kind \in {"text", "error"} /\ sink[j].err # "read"
       /\ Beneath(sink[j].path, RStrip(encoding_rules[1].pat, "/")))
        => sink[j].codec = encoding_rules[1].val

\* C10: an exclude keeps exactly the members of the working set that no
\* pattern of it matches and adds nothing; an operation without patterns
\* leaves the working set as it was.
C10_ExcludeFilters ==
  AfterOperation =>
    LET pats == SplitPatterns(LastOp.patterns_str)
    IN  /\ LastOp.action = "exclude" =>
             /\ current_set \subseteq prev_set
             /\ \A p \in prev_set :
                  p \in current_set <=>
                    ~\E j \in 1..Len(pats) : match_pattern(p, pats[j], IsDir(p))
        /\ pats = <<>> => current_set = prev_set

C10_Witness ==
  /\ AfterOperation
  /\ LastOp.action = "exclude"
  /\ current_set # {}
  /\ current_set # prev_set

====
